---------------------------- MODULE Spec2Model ----------------------------
(***************************************************************************)
(* CustomScrollbarComponent (src/custom-scrollbar.component.ts): the       *)
(* overlay scrollbar's geometry, drag state machine, deferred recomputes   *)
(* and lifecycle, as a state machine over the component's fields and the   *)
(* inline styles / layout metrics of the viewport, thumb and track.        *)
(*                                                                         *)
(* Numbers: JavaScript numbers are modelled as exact rationals <<n, d>>    *)
(* (d > 0, lowest terms) plus NaN; the only non-finite value the handlers  *)
(* can produce is 0/0.  Layout metrics that the DOM reports as integers    *)
(* (scrollHeight, clientHeight, offsetHeight, clientY) are integers.       *)
(***************************************************************************)
EXTENDS Integers, FiniteSets, Sequences, TLC

(***************************************************************************)
(* Bounds of the model.                                                    *)
(***************************************************************************)
\* pointer-downs on the thumb in one run (each registers two listeners)
MaxDrags == 1
\* un-fired 50 ms / 100 ms timeouts of one kind that may be pending at once
MaxPending == 1
\* content / layout / window size changes in one run
MaxChanges == 1

\* viewport heights: smaller than the minimum thumb, equal to it, ordinary
ClientHeights == {40, 50, 300}
\* content heights: not scrollable, inside the 5px tolerance, two scrollable
ScrollHeights == {300, 305, 400, 800}
\* positions the user scrolls to natively (clamped to the scroll range)
ScrollTops == {100, 700}
\* pointer / touch / click Y coordinates: above the track, far below it
ClientYs == {0, 900}
\* how a style gives back a zero length that was written without a unit
ZeroTexts == {"0", "0px"}
\* values of the thumbColorOverride and trackColorOverride inputs
ThumbColorOverrides == {"", "#cc0000"}
TrackColorOverrides == {"", "#eeeeee"}
\* router URLs, as sequences of characters: "/cells", "/machine/7",
\* "/s/machines"
UrlCells == <<"/", "c", "e", "l", "l", "s">>
UrlMachine == <<"/", "m", "a", "c", "h", "i", "n", "e", "/", "7">>
UrlNested == <<"/", "s", "/", "m", "a", "c", "h", "i", "n", "e", "s">>
Urls == {UrlCells, UrlMachine, UrlNested}
\* elements inside the track a click can land on
ClickTargets == {"thumb", "track"}

(***************************************************************************)
(* Program constants.                                                      *)
(***************************************************************************)
\* updateThumbSize: the 5px tolerance of "no scrolling needed"
Tolerance == 5
\* updateThumbSize: const minThumbHeight = 50
minThumbHeight == 50
\* updateThumbSize: const maxThumbHeight = clientHeight - 20
edgeMargin == 20
\* .os-scrollbar-thumb { min-height: 50px }
cssMinHeight == 50
\* @Input() scrollbarWidth: number = 10
scrollbarWidth == 10
\* private colorSchemes, keyed by ThemeColors.Green = 'green', .Blue = 'blue'
colorSchemes ==
  [green |-> [thumb |-> "#08a208",
              thumbHover |-> "rgba(21, 128, 61, 0.9)",
              thumbActive |-> "rgba(20, 83, 45, 0.95)",
              track |-> "rgba(224, 246,224,0.6)",
              trackHover |-> "rgba(34, 197, 94, 0.25)"],
   blue  |-> [thumb |-> "#0076CC",
              thumbHover |-> "rgba(0, 80, 160, 0.9)",
              thumbActive |-> "rgba(0, 60, 120, 0.95)",
              track |-> "rgba(217,229,255,0.6)",
              trackHover |-> "rgba(59, 130, 246, 0.25)"]]
\* the text updateThemeColor looks for: '/machine'
MachineKey == <<"/", "m", "a", "c", "h", "i", "n", "e">>

(***************************************************************************)
(* JavaScript numbers as exact rationals.                                  *)
(***************************************************************************)
Abs(x) == IF x < 0 THEN -x ELSE x

RECURSIVE GCD(_, _)
GCD(a, b) == IF b = 0 THEN a ELSE GCD(b, a % b)

\* the result of 0/0
NaN == <<0, 0>>
\* an inline style property that was never assigned (the empty string)
Unset == <<1, 0>>

IsNum(r) == r[2] > 0

Rat(n, d) ==
  IF d = 0 THEN NaN
  ELSE LET g == GCD(Abs(n), Abs(d))
           s == IF d < 0 THEN -1 ELSE 1
       IN  <<(s * n) \div g, (s * d) \div g>>

Num(n) == <<n, 1>>

Add(a, b) == IF IsNum(a) /\ IsNum(b) THEN Rat(a[1] * b[2] + b[1] * a[2], a[2] * b[2]) ELSE NaN
Mul(a, b) == IF IsNum(a) /\ IsNum(b) THEN Rat(a[1] * b[1], a[2] * b[2]) ELSE NaN
\* x / 0 is NaN for x = 0; the handlers never divide a non-zero value by 0
Div(a, b) == IF IsNum(a) /\ IsNum(b) THEN Rat(a[1] * b[2], a[2] * b[1]) ELSE NaN
Leq(a, b) == a[1] * b[2] <= b[1] * a[2]
Lt(a, b)  == a[1] * b[2] < b[1] * a[2]
\* Math.min / Math.max: NaN if either argument is NaN
MathMin(a, b) == IF IsNum(a) /\ IsNum(b) THEN (IF Leq(a, b) THEN a ELSE b) ELSE NaN
MathMax(a, b) == IF IsNum(a) /\ IsNum(b) THEN (IF Leq(a, b) THEN b ELSE a) ELSE NaN
\* rounding of a layout length to the integer the DOM reports
Round(a) == (2 * a[1] + a[2]) \div (2 * a[2])


(***************************************************************************)
(* State.  The first group is what the handlers read and write: the        *)
(* viewport's layout metrics, the inline styles of thumb and track, the    *)
(* component's drag fields and the listener registry.  The second group is *)
(* the lifecycle, the timers and the environment's pointer.                *)
(***************************************************************************)
VARIABLES
  scrollHeight,    \* viewportEl.scrollHeight
  clientHeight,    \* viewportEl.clientHeight
  scrollTop,       \* viewportEl.scrollTop
  scrollEvt,       \* a scroll event of the viewport is queued
  smoothTarget,    \* target of a running scrollTo({behavior: 'smooth'}), or Unset
  thumbDisplay,    \* thumbEl.style.display: "", "none", "block"
  trackDisplay,    \* thumbEl.parentElement.style.display
  thumbHeight,     \* thumbEl.style.height in px, or Unset
  thumbTransform,  \* Y of thumbEl.style.transform = translate3d(0, Ypx, 0), or Unset
  thumbOpacity,    \* thumbEl.style.opacity: "", "0.8"
  isDragging,
  dragStartY,
  thumbStartY,
  listeners,       \* event type -> set of registered listener functions
  nextBind,        \* identity of the next function object made by .bind(this)
  thumbEl,         \* this.thumbEl and this.viewportEl have been assigned
  currentThemeColor,
  thumbColorOverride,
  trackColorOverride,
  thumbBackground, \* thumbEl.style 'background-color' (set !important), or ""
  trackBackground, \* trackEl.style 'background-color' (set !important), or ""
  trackWidth,      \* trackEl.style.width in px, or 0 while never assigned
  rootStyle,       \* custom properties of document.documentElement.style
  routerUrl,       \* router.url
  subscribers,     \* subscribers of router.events, in order of subscription
  peer,            \* colour state of a second instance on the same page
  phase,           \* "constructed", "mounted", "destroyed"
  observer,        \* the MutationObserver is observing
  initTimer,       \* the 200 ms timeout of ngAfterViewInit is pending
  mutationTimers,  \* pending 50 ms timeouts of the mutation callback
  resizeTimers,    \* pending 100 ms timeouts of onWindowResize
  interval,        \* the 1 s interval of setupContentObserver is running
  pointer,         \* "none", "mouse" (button held), "touch" (finger down)
  changes          \* size changes so far

domVars == <<scrollHeight, clientHeight, scrollTop, scrollEvt, smoothTarget,
             thumbDisplay, trackDisplay, thumbHeight, thumbTransform, thumbOpacity,
             isDragging, dragStartY, thumbStartY, listeners, nextBind,
             thumbEl, currentThemeColor, thumbColorOverride, trackColorOverride,
             thumbBackground, trackBackground, trackWidth, rootStyle>>
envVars == <<phase, observer, initTimer, mutationTimers, resizeTimers, interval,
             pointer, changes>>
routing == <<routerUrl, subscribers, peer>>
vars == <<domVars, envVars, routing>>

EventTypes == {"mousedown", "touchstart", "mousemove", "mouseup", "touchmove", "touchend"}

\* the current value of everything a handler reads or writes
Cur ==
  [scrollHeight |-> scrollHeight, clientHeight |-> clientHeight, scrollTop |-> scrollTop,
   scrollEvt |-> scrollEvt, smoothTarget |-> smoothTarget,
   thumbDisplay |-> thumbDisplay, trackDisplay |-> trackDisplay,
   thumbHeight |-> thumbHeight, thumbTransform |-> thumbTransform,
   thumbOpacity |-> thumbOpacity, isDragging |-> isDragging,
   dragStartY |-> dragStartY, thumbStartY |-> thumbStartY,
   listeners |-> listeners, nextBind |-> nextBind,
   thumbEl |-> thumbEl, currentThemeColor |-> currentThemeColor,
   thumbColorOverride |-> thumbColorOverride, trackColorOverride |-> trackColorOverride,
   thumbBackground |-> thumbBackground, trackBackground |-> trackBackground,
   trackWidth |-> trackWidth, rootStyle |-> rootStyle]

\* a handler's result becomes the next state
Commit(s) ==
  /\ scrollHeight' = s.scrollHeight
  /\ clientHeight' = s.clientHeight
  /\ scrollTop' = s.scrollTop
  /\ scrollEvt' = s.scrollEvt
  /\ smoothTarget' = s.smoothTarget
  /\ thumbDisplay' = s.thumbDisplay
  /\ trackDisplay' = s.trackDisplay
  /\ thumbHeight' = s.thumbHeight
  /\ thumbTransform' = s.thumbTransform
  /\ thumbOpacity' = s.thumbOpacity
  /\ isDragging' = s.isDragging
  /\ dragStartY' = s.dragStartY
  /\ thumbStartY' = s.thumbStartY
  /\ listeners' = s.listeners
  /\ nextBind' = s.nextBind
  /\ thumbEl' = s.thumbEl
  /\ currentThemeColor' = s.currentThemeColor
  /\ thumbColorOverride' = s.thumbColorOverride
  /\ trackColorOverride' = s.trackColorOverride
  /\ thumbBackground' = s.thumbBackground
  /\ trackBackground' = s.trackBackground
  /\ trackWidth' = s.trackWidth
  /\ rootStyle' = s.rootStyle

(***************************************************************************)
(* The DOM the component is given.                                         *)
(***************************************************************************)
\* scrollHeight - clientHeight, the largest scrollTop
MaxScroll(s) == s.scrollHeight - s.clientHeight

\* thumbEl.offsetHeight: 0 while the thumb or its parent is display:none,
\* otherwise the used height (never under the stylesheet's min-height) as
\* an integer
OffsetHeight(s) ==
  IF s.thumbDisplay = "none" \/ s.trackDisplay = "none" THEN 0
  ELSE IF s.thumbHeight = Unset THEN cssMinHeight
  ELSE Round(MathMax(s.thumbHeight, Num(cssMinHeight)))

\* viewportEl.scrollTop = v, and scrollTo({top: v}): a non-finite value is
\* 0, the value is clamped to the scroll range, a change queues a scroll
\* event; assigning scrollTop ends a running smooth scroll
ScrollTo(s, v) ==
  LET w == IF IsNum(v) THEN MathMax(Num(0), MathMin(v, Num(MaxScroll(s)))) ELSE Num(0)
  IN  [s EXCEPT !.scrollTop = w,
                !.scrollEvt = s.scrollEvt \/ (w # s.scrollTop),
                !.smoothTarget = Unset]

\* thumbEl.style.transform = `translate3d(0, ${y}px, 0)`: a declaration
\* whose value does not parse ("NaNpx") is dropped and the old value stays
SetTransform(s, y) == IF IsNum(y) THEN [s EXCEPT !.thumbTransform = y] ELSE s

\* the content or the viewport takes a new size; scrollTop is clamped
Relayout(s, sh, ch) ==
  LET h == IF sh < ch THEN ch ELSE sh
      t == MathMin(s.scrollTop, Num(h - ch))
  IN  [s EXCEPT !.scrollHeight = h, !.clientHeight = ch, !.scrollTop = t,
                !.scrollEvt = s.scrollEvt \/ (t # s.scrollTop)]

\* target.addEventListener(type, fn)
AddListener(s, type, fn) == [s EXCEPT !.listeners[type] = @ \cup {fn}]
\* target.removeEventListener(type, fn): removes fn itself, nothing else
RemoveListener(s, type, fn) == [s EXCEPT !.listeners[type] = @ \ {fn}]
\* this.handler.bind(this): a new function object on every evaluation
Bind(s) == s.nextBind
Bound(s) == [s EXCEPT !.nextBind = @ + 1]

(***************************************************************************)
(* Geometry: updateThumbSize and updateThumbPosition.                      *)
(***************************************************************************)
\* faulty variant of NoScrollNeeded: the tolerance bound taken as exclusive
NoScrollNeededExclusive(sh, ch) == sh < ch + Tolerance

\* updateThumbSize: scrollHeight <= clientHeight + 5, no scrolling needed
NoScrollNeeded(sh, ch) == sh <= ch + Tolerance

\* faulty variant of ComputeThumbHeight: the two clamps applied in the other order
ComputeThumbHeightMaxLast(sh, ch) ==
  MathMin(Num(ch - edgeMargin),
          MathMax(Num(minThumbHeight), Mul(Num(ch), Rat(ch, sh))))

\* updateThumbSize: Math.max(minThumbHeight, Math.min(maxThumbHeight,
\* clientHeight * (clientHeight / scrollHeight)))
ComputeThumbHeight(sh, ch) ==
  MathMax(Num(minThumbHeight),
          MathMin(Num(ch - edgeMargin), Mul(Num(ch), Rat(ch, sh))))

updateThumbSize(s) ==
  IF NoScrollNeeded(s.scrollHeight, s.clientHeight)
  THEN [s EXCEPT !.thumbDisplay = "none", !.trackDisplay = "none"]
  ELSE [s EXCEPT !.thumbDisplay = "block", !.trackDisplay = "block",
                 !.thumbHeight = ComputeThumbHeight(s.scrollHeight, s.clientHeight)]

\* updateThumbPosition: scrollTop / (scrollHeight - clientHeight) * thumbMaxY
ComputeThumbY(st, sh, ch, offsetHeight) ==
  Mul(Div(st, Num(sh - ch)), Num(ch - offsetHeight))

updateThumbPosition(s) ==
  SetTransform(s, ComputeThumbY(s.scrollTop, s.scrollHeight, s.clientHeight, OffsetHeight(s)))

\* faulty variant of Recompute: the size only, as the interval does
RecomputeSizeOnly(s) == updateThumbSize(s)

\* faulty variant of Recompute: the position written before the size
RecomputePositionFirst(s) == updateThumbSize(updateThumbPosition(s))

\* the body of the three timeouts: updateThumbSize(); updateThumbPosition()
Recompute(s) == updateThumbPosition(updateThumbSize(s))

\* onContentScroll
onContentScroll(s) == IF ~s.isDragging THEN updateThumbPosition(s) ELSE s

(***************************************************************************)
(* Drag: mouse and touch handlers.                                         *)
(***************************************************************************)
\* thumbEl.style.transform read back, as the texts of its three arguments:
\* the empty string when it was never assigned, otherwise the Y that was
\* written between two zero lengths.  A style keeps the zero lengths as
\* they were written ("0") or gives them back with a unit ("0px"), as the
\* platform serialises declarations.
StyleTransform(t, zero) == IF t = Unset THEN <<>> ELSE <<zero, t, zero>>

\* transform.match(/translate3d\(0,\s*([^,]+)px,\s*0\)/): the pattern wants
\* the literal texts "0," and "0)" around the Y; match ? parseFloat(match[1]) : 0
ParseTransform(text) ==
  IF text # <<>> /\ text[1] = "0" /\ text[3] = "0" THEN text[2] ELSE Num(0)

\* Math.max(0, Math.min(newThumbY, thumbMaxY))
ClampThumbY(y, thumbMaxY) == MathMax(Num(0), MathMin(y, Num(thumbMaxY)))

\* faulty variant of ThumbYToScrollTop: the fraction scaled by scrollHeight
ThumbYToScrollTopFullHeight(y, thumbMaxY, sh, ch) == Mul(Div(y, Num(thumbMaxY)), Num(sh))

\* clampedThumbY / thumbMaxY * (scrollHeight - clientHeight)
ThumbYToScrollTop(y, thumbMaxY, sh, ch) == Mul(Div(y, Num(thumbMaxY)), Num(sh - ch))

onThumbMouseDown(s, clientY, zero) ==
  LET a == [s EXCEPT !.isDragging = TRUE,
                     !.dragStartY = clientY,
                     !.thumbStartY = ParseTransform(StyleTransform(s.thumbTransform, zero))]
      b == Bound(AddListener(a, "mousemove", Bind(a)))
      c == Bound(AddListener(b, "mouseup", Bind(b)))
  IN  [c EXCEPT !.thumbOpacity = "0.8"]

onDocumentMouseMove(s, clientY) ==
  IF ~s.isDragging THEN s
  ELSE LET newThumbY == Add(s.thumbStartY, Num(clientY - s.dragStartY))
           thumbMaxY == s.clientHeight - OffsetHeight(s)
           clampedThumbY == ClampThumbY(newThumbY, thumbMaxY)
           a == SetTransform(s, clampedThumbY)
       IN  ScrollTo(a, ThumbYToScrollTop(clampedThumbY, thumbMaxY,
                                         s.scrollHeight, s.clientHeight))

onDocumentMouseUp(s) ==
  IF ~s.isDragging THEN s
  ELSE LET a == [s EXCEPT !.isDragging = FALSE]
           b == Bound(RemoveListener(a, "mousemove", Bind(a)))
           c == Bound(RemoveListener(b, "mouseup", Bind(b)))
       IN  [c EXCEPT !.thumbOpacity = ""]

onThumbTouchStart(s, clientY, zero) ==
  LET a == [s EXCEPT !.isDragging = TRUE,
                     !.dragStartY = clientY,
                     !.thumbStartY = ParseTransform(StyleTransform(s.thumbTransform, zero))]
      b == Bound(AddListener(a, "touchmove", Bind(a)))
      c == Bound(AddListener(b, "touchend", Bind(b)))
  IN  [c EXCEPT !.thumbOpacity = "0.8"]

\* faulty variant of onDocumentTouchMove: the thumb is moved, the viewport
\* is not scrolled
onDocumentTouchMoveThumbOnly(s, clientY) ==
  IF ~s.isDragging THEN s
  ELSE LET newThumbY == Add(s.thumbStartY, Num(clientY - s.dragStartY))
           thumbMaxY == s.clientHeight - OffsetHeight(s)
       IN  SetTransform(s, ClampThumbY(newThumbY, thumbMaxY))

onDocumentTouchMove(s, clientY) ==
  IF ~s.isDragging THEN s
  ELSE LET newThumbY == Add(s.thumbStartY, Num(clientY - s.dragStartY))
           thumbMaxY == s.clientHeight - OffsetHeight(s)
           clampedThumbY == ClampThumbY(newThumbY, thumbMaxY)
           a == SetTransform(s, clampedThumbY)
       IN  ScrollTo(a, ThumbYToScrollTop(clampedThumbY, thumbMaxY,
                                         s.scrollHeight, s.clientHeight))

onDocumentTouchEnd(s) ==
  IF ~s.isDragging THEN s
  ELSE LET a == [s EXCEPT !.isDragging = FALSE]
           b == Bound(RemoveListener(a, "touchmove", Bind(a)))
           c == Bound(RemoveListener(b, "touchend", Bind(b)))
       IN  [c EXCEPT !.thumbOpacity = ""]

\* onTrackClick: the newScrollTop handed to scrollTo; clickY is
\* event.clientY - rect.top
TrackClickScrollTop(s, clickY) ==
  LET thumbH == OffsetHeight(s)
      targetThumbY == Add(Num(clickY), Rat(-thumbH, 2))
      thumbMaxY == s.clientHeight - thumbH
      clampedThumbY == ClampThumbY(targetThumbY, thumbMaxY)
  IN  ThumbYToScrollTop(clampedThumbY, thumbMaxY, s.scrollHeight, s.clientHeight)

\* viewportEl.scrollTo({top: v, behavior: 'smooth'}): a non-finite top is
\* 0, the target is clamped to the scroll range, the animation starts
SmoothScrollTo(s, v) ==
  [s EXCEPT !.smoothTarget =
     IF IsNum(v) THEN MathMax(Num(0), MathMin(v, Num(MaxScroll(s)))) ELSE Num(0)]

\* onTrackClick: target is the element the click landed on, "thumb" or
\* "track"
onTrackClick(s, target, clickY) ==
  IF target = "thumb" THEN s ELSE SmoothScrollTo(s, TrackClickScrollTop(s, clickY))

\* an event of the document runs every listener registered for its type
RECURSIVE RunMouseMove(_, _, _)
RunMouseMove(n, s, clientY) ==
  IF n = 0 THEN s ELSE RunMouseMove(n - 1, onDocumentMouseMove(s, clientY), clientY)
RECURSIVE RunMouseUp(_, _)
RunMouseUp(n, s) == IF n = 0 THEN s ELSE RunMouseUp(n - 1, onDocumentMouseUp(s))
RECURSIVE RunTouchMove(_, _, _)
RunTouchMove(n, s, clientY) ==
  IF n = 0 THEN s ELSE RunTouchMove(n - 1, onDocumentTouchMove(s, clientY), clientY)
RECURSIVE RunTouchEnd(_, _)
RunTouchEnd(n, s) == IF n = 0 THEN s ELSE RunTouchEnd(n - 1, onDocumentTouchEnd(s))

(***************************************************************************)
(* Theme: updateThemeColor, applyCustomization, the NavigationEnd          *)
(* subscription.                                                           *)
(***************************************************************************)
\* url.includes(key)
Includes(url, key) ==
  \E i \in 1..(Len(url) - Len(key) + 1) : SubSeq(url, i, i + Len(key) - 1) = key

\* faulty variant of updateThemeColor: the URL compared with '/machine'
\* instead of searched for it
updateThemeColorExact(s, url) ==
  [s EXCEPT !.currentThemeColor = IF url = MachineKey THEN "blue" ELSE "green"]

updateThemeColor(s, url) ==
  [s EXCEPT !.currentThemeColor = IF Includes(url, MachineKey) THEN "blue" ELSE "green"]

\* a || b on strings: the empty string is falsy
OrElse(a, b) == IF a # "" THEN a ELSE b

applyCustomization(s) ==
  IF ~s.thumbEl THEN s
  ELSE LET colorScheme == colorSchemes[s.currentThemeColor]
       IN  [s EXCEPT
              !.trackWidth = scrollbarWidth,
              !.thumbBackground = OrElse(s.thumbColorOverride, colorScheme.thumb),
              !.trackBackground = OrElse(s.trackColorOverride, colorScheme.track),
              !.rootStyle =
                 [thumbHover  |-> OrElse(s.thumbColorOverride, colorScheme.thumbHover),
                  thumbActive |-> OrElse(s.thumbColorOverride, colorScheme.thumbActive),
                  trackHover  |-> OrElse(s.trackColorOverride, colorScheme.trackHover)]]

\* ngOnInit: the theme of router.url (the subscription is made by the step)
ngOnInit(s, url) == updateThemeColor(s, url)

\* faulty variant of onNavigationEnd: the geometry recomputed as well
onNavigationEndRecompute(s, url) ==
  LET a == updateThemeColor(s, url)
  IN  IF a.thumbEl THEN Recompute(applyCustomization(a)) ELSE a

\* the subscriber of ngOnInit, run for a NavigationEnd event
onNavigationEnd(s, url) ==
  LET a == updateThemeColor(s, url)
  IN  IF a.thumbEl THEN applyCustomization(a) ELSE a

(***************************************************************************)
(* Lifecycle.                                                              *)
(***************************************************************************)
\* ngAfterViewInit: the view children, the colours, the two listeners of
\* the thumb (the timers and the observer are started by the step)
ngAfterViewInit(s) ==
  LET v == applyCustomization([s EXCEPT !.thumbEl = TRUE])
      a == Bound(AddListener(v, "mousedown", Bind(v)))
  IN  Bound(AddListener(a, "touchstart", Bind(a)))

\* ngOnDestroy: the two removeEventListener calls
ngOnDestroy(s) ==
  LET a == Bound(RemoveListener(s, "mousedown", Bind(s)))
  IN  Bound(RemoveListener(a, "touchstart", Bind(a)))

(***************************************************************************)
(* A second instance on the same page.  Only its colour state is           *)
(* followed; its handlers are the same operators, run on an instance       *)
(* whose other fields are those of a newly constructed component.          *)
(***************************************************************************)
NewInstance ==
  [scrollHeight |-> 0, clientHeight |-> 0, scrollTop |-> Num(0),
   scrollEvt |-> FALSE, smoothTarget |-> Unset,
   thumbDisplay |-> "", trackDisplay |-> "",
   thumbHeight |-> Unset, thumbTransform |-> Unset,
   thumbOpacity |-> "", isDragging |-> FALSE,
   dragStartY |-> 0, thumbStartY |-> Num(0),
   listeners |-> [t \in EventTypes |-> {}], nextBind |-> 0,
   thumbEl |-> FALSE, currentThemeColor |-> "green",
   thumbColorOverride |-> "", trackColorOverride |-> "",
   thumbBackground |-> "", trackBackground |-> "",
   trackWidth |-> 0,
   rootStyle |-> [thumbHover |-> "", thumbActive |-> "", trackHover |-> ""]]

\* the second instance as an instance, given the document's custom properties
PeerAsInstance(p, root) ==
  [NewInstance EXCEPT
     !.thumbEl = p.thumbEl, !.currentThemeColor = p.currentThemeColor,
     !.thumbColorOverride = p.thumbColorOverride,
     !.trackColorOverride = p.trackColorOverride,
     !.thumbBackground = p.thumbBackground, !.trackBackground = p.trackBackground,
     !.trackWidth = p.trackWidth, !.rootStyle = root]

\* the colour state of an instance, in lifecycle phase ph
PeerOf(s, ph) ==
  [phase |-> ph, thumbEl |-> s.thumbEl, currentThemeColor |-> s.currentThemeColor,
   thumbColorOverride |-> s.thumbColorOverride,
   trackColorOverride |-> s.trackColorOverride,
   thumbBackground |-> s.thumbBackground, trackBackground |-> s.trackBackground,
   trackWidth |-> s.trackWidth]

\* router.events emits NavigationEnd(url): the subscribers run in the
\* order they subscribed; the result is <<this instance, the second one>>
RECURSIVE Notify(_, _, _, _)
Notify(subs, s, p, url) ==
  IF subs = <<>> THEN <<s, p>>
  ELSE IF Head(subs) = "widget"
       THEN Notify(Tail(subs), onNavigationEnd(s, url), p, url)
       ELSE LET q == onNavigationEnd(PeerAsInstance(p, s.rootStyle), url)
            IN  Notify(Tail(subs), [s EXCEPT !.rootStyle = q.rootStyle],
                       PeerOf(q, p.phase), url)

\* destroy$.next() under takeUntil(destroy$): the subscription ends
Unsubscribe(subs, who) == SelectSeq(subs, LAMBDA x : x # who)

(***************************************************************************)
(* Initial state: the component is constructed, the view not yet           *)
(* initialised; the content has some size and is scrolled to the top.      *)
(***************************************************************************)
\* the fields of the constructed component, the DOM it will be given
InitWidget ==
  /\ scrollTop = Num(0)
  /\ scrollEvt = FALSE
  /\ smoothTarget = Unset
  /\ thumbDisplay = ""
  /\ trackDisplay = ""
  /\ thumbHeight = Unset
  /\ thumbTransform = Unset
  /\ thumbOpacity = ""
  /\ isDragging = FALSE
  /\ dragStartY = 0
  /\ thumbStartY = Num(0)
  /\ listeners = [t \in EventTypes |-> {}]
  /\ nextBind = 0
  /\ thumbEl = FALSE
  /\ currentThemeColor = "green"
  /\ thumbBackground = ""
  /\ trackBackground = ""
  /\ trackWidth = 0
  /\ rootStyle = [thumbHover |-> "", thumbActive |-> "", trackHover |-> ""]
  /\ subscribers = <<>>
  /\ phase = "constructed"
  /\ observer = FALSE
  /\ initTimer = FALSE
  /\ mutationTimers = 0
  /\ resizeTimers = 0
  /\ interval = FALSE
  /\ pointer = "none"
  /\ changes = 0

\* a page with this one instance, no colour overrides, on the route /cells
Init ==
  /\ InitWidget
  /\ scrollHeight \in ScrollHeights
  /\ clientHeight \in ClientHeights
  /\ scrollHeight >= clientHeight
  /\ thumbColorOverride = ""
  /\ trackColorOverride = ""
  /\ routerUrl = UrlCells
  /\ peer = PeerOf(NewInstance, "absent")

\* a page with this one instance, with any overrides, on any route, over
\* content 800px high in a viewport 300px high
InitNavigation ==
  /\ InitWidget
  /\ scrollHeight = 800
  /\ clientHeight = 300
  /\ thumbColorOverride \in ThumbColorOverrides
  /\ trackColorOverride \in TrackColorOverrides
  /\ routerUrl \in Urls
  /\ peer = PeerOf(NewInstance, "absent")

\* a page that will hold two instances, each with its own overrides, on any
\* route, over content 800px high in a viewport 300px high
InitTheme ==
  /\ InitWidget
  /\ scrollHeight = 800
  /\ clientHeight = 300
  /\ thumbColorOverride \in ThumbColorOverrides
  /\ trackColorOverride \in TrackColorOverrides
  /\ routerUrl \in Urls
  /\ \E a \in ThumbColorOverrides, b \in TrackColorOverrides :
       peer = PeerOf([NewInstance EXCEPT !.thumbColorOverride = a,
                                         !.trackColorOverride = b], "absent")

\* the thumb can be hit by the pointer
ThumbShown == thumbDisplay # "none" /\ trackDisplay # "none"

\* pointer-downs on the thumb so far
Drags == Cardinality(listeners["mousemove"]) + Cardinality(listeners["touchmove"])

(***************************************************************************)
(* Lifecycle steps.                                                        *)
(***************************************************************************)
\* ngOnInit: the theme of the current route, the NavigationEnd subscription
NgOnInit ==
  /\ phase = "constructed"
  /\ Commit(ngOnInit(Cur, routerUrl))
  /\ phase' = "initialised"
  /\ subscribers' = Append(subscribers, "widget")
  /\ UNCHANGED <<routerUrl, peer>>
  /\ UNCHANGED <<observer, initTimer, mutationTimers, resizeTimers, interval, pointer,
                 changes>>

\* ngAfterViewInit: colours, 200 ms timeout, observer, interval, thumb
\* listeners
NgAfterViewInit ==
  /\ phase = "initialised"
  /\ Commit(ngAfterViewInit(Cur))
  /\ phase' = "mounted"
  /\ initTimer' = TRUE
  /\ observer' = TRUE
  /\ interval' = TRUE
  /\ UNCHANGED routing
  /\ UNCHANGED <<mutationTimers, resizeTimers, pointer, changes>>

\* ngOnDestroy: the observer is disconnected; no timer is cleared.  The
\* framework drops the template and host bindings (scroll, click, resize).
NgOnDestroy ==
  /\ phase = "mounted"
  /\ Commit(ngOnDestroy(Cur))
  /\ phase' = "destroyed"
  /\ observer' = FALSE
  /\ subscribers' = Unsubscribe(subscribers, "widget")
  /\ UNCHANGED <<routerUrl, peer>>
  /\ UNCHANGED <<initTimer, mutationTimers, resizeTimers, interval, pointer, changes>>

(***************************************************************************)
(* Navigation, and the lifecycle of the second instance.                   *)
(***************************************************************************)
\* the router ends a navigation to url
NavigationEnd(url) ==
  /\ LET r == Notify(subscribers, Cur, peer, url)
     IN  Commit(r[1]) /\ peer' = r[2]
  /\ routerUrl' = url
  /\ UNCHANGED subscribers
  /\ UNCHANGED envVars

PeerNgOnInit ==
  /\ peer.phase = "absent"
  /\ peer' = PeerOf(ngOnInit(PeerAsInstance(peer, rootStyle), routerUrl), "initialised")
  /\ subscribers' = Append(subscribers, "peer")
  /\ UNCHANGED <<domVars, envVars, routerUrl>>

PeerNgAfterViewInit ==
  /\ peer.phase = "initialised"
  /\ LET q == ngAfterViewInit(PeerAsInstance(peer, rootStyle))
     IN  /\ peer' = PeerOf(q, "mounted")
         /\ Commit([Cur EXCEPT !.rootStyle = q.rootStyle])
  /\ UNCHANGED <<envVars, routerUrl, subscribers>>

PeerNgOnDestroy ==
  /\ peer.phase = "mounted"
  /\ peer' = [peer EXCEPT !.phase = "destroyed"]
  /\ subscribers' = Unsubscribe(subscribers, "peer")
  /\ UNCHANGED <<domVars, envVars, routerUrl>>

(***************************************************************************)
(* Size changes and the deferred recomputes.                               *)
(***************************************************************************)
\* a structural mutation of the content: the observer's callback starts a
\* 50 ms timeout
ContentMutation(sh) ==
  /\ phase = "mounted"
  /\ changes < MaxChanges
  /\ mutationTimers < MaxPending
  /\ sh # scrollHeight
  /\ sh >= clientHeight
  /\ Commit(Relayout(Cur, sh, clientHeight))
  /\ mutationTimers' = IF observer THEN mutationTimers + 1 ELSE mutationTimers
  /\ changes' = changes + 1
  /\ UNCHANGED routing
  /\ UNCHANGED <<phase, observer, initTimer, resizeTimers, interval, pointer>>

\* the content changes height with no mutation record and no resize (fonts
\* loading, a CSS transition, an attribute change)
LayoutShift(sh) ==
  /\ phase = "mounted"
  /\ changes < MaxChanges
  /\ sh # scrollHeight
  /\ sh >= clientHeight
  /\ Commit(Relayout(Cur, sh, clientHeight))
  /\ changes' = changes + 1
  /\ UNCHANGED routing
  /\ UNCHANGED <<phase, observer, initTimer, mutationTimers, resizeTimers, interval, pointer>>

\* window:resize gives the viewport a new height; onWindowResize starts a
\* 100 ms timeout
WindowResize(ch) ==
  /\ phase = "mounted"
  /\ changes < MaxChanges
  /\ resizeTimers < MaxPending
  /\ ch # clientHeight
  /\ Commit(Relayout(Cur, scrollHeight, ch))
  /\ resizeTimers' = resizeTimers + 1
  /\ changes' = changes + 1
  /\ UNCHANGED routing
  /\ UNCHANGED <<phase, observer, initTimer, mutationTimers, interval, pointer>>

\* the 200 ms timeout of ngAfterViewInit fires
InitTimeout ==
  /\ initTimer
  /\ Commit(Recompute(Cur))
  /\ initTimer' = FALSE
  /\ UNCHANGED routing
  /\ UNCHANGED <<phase, observer, mutationTimers, resizeTimers, interval, pointer, changes>>

\* a 50 ms timeout of the mutation callback fires
MutationTimeout ==
  /\ mutationTimers > 0
  /\ Commit(Recompute(Cur))
  /\ mutationTimers' = mutationTimers - 1
  /\ UNCHANGED routing
  /\ UNCHANGED <<phase, observer, initTimer, resizeTimers, interval, pointer, changes>>

\* a 100 ms timeout of onWindowResize fires
ResizeTimeout ==
  /\ resizeTimers > 0
  /\ Commit(Recompute(Cur))
  /\ resizeTimers' = resizeTimers - 1
  /\ UNCHANGED routing
  /\ UNCHANGED <<phase, observer, initTimer, mutationTimers, interval, pointer, changes>>

\* the 1 s interval fires: updateThumbSize only.  Its first tick is due
\* 800 ms after the 200 ms timeout that was started with it.
IntervalTick ==
  /\ interval
  /\ ~initTimer
  /\ Commit(updateThumbSize(Cur))
  /\ UNCHANGED routing
  /\ UNCHANGED <<phase, observer, initTimer, mutationTimers, resizeTimers, interval,
                 pointer, changes>>

(***************************************************************************)
(* Scrolling.                                                              *)
(***************************************************************************)
\* the user scrolls the viewport natively (wheel, keyboard, touch)
UserScroll(st) ==
  /\ phase = "mounted"
  /\ LET t == MathMin(Num(st), Num(MaxScroll(Cur)))
     IN  /\ t # scrollTop
         /\ Commit([Cur EXCEPT !.scrollTop = t, !.scrollEvt = TRUE, !.smoothTarget = Unset])
  /\ UNCHANGED routing
  /\ UNCHANGED <<phase, observer, initTimer, mutationTimers, resizeTimers, interval,
                 pointer, changes>>

\* a running smooth scroll arrives at its target
SmoothScroll ==
  /\ phase = "mounted"
  /\ smoothTarget # Unset
  /\ Commit(ScrollTo(Cur, smoothTarget))
  /\ UNCHANGED routing
  /\ UNCHANGED <<phase, observer, initTimer, mutationTimers, resizeTimers, interval,
                 pointer, changes>>

\* the queued scroll event is dispatched: (scroll)="onContentScroll()"
ScrollEvent ==
  /\ phase = "mounted"
  /\ scrollEvt
  /\ Commit([onContentScroll(Cur) EXCEPT !.scrollEvt = FALSE])
  /\ UNCHANGED routing
  /\ UNCHANGED <<phase, observer, initTimer, mutationTimers, resizeTimers, interval,
                 pointer, changes>>

\* a click inside the track, on the thumb or beside it: (click)="onTrackClick($event)"
TrackClick(target, clickY) ==
  /\ phase = "mounted"
  /\ trackDisplay # "none"
  /\ target = "thumb" => ThumbShown
  /\ pointer = "none"
  /\ Commit(onTrackClick(Cur, target, clickY))
  /\ UNCHANGED routing
  /\ UNCHANGED <<phase, observer, initTimer, mutationTimers, resizeTimers, interval,
                 pointer, changes>>

(***************************************************************************)
(* Pointer events.  The listeners of the thumb can be reached while the    *)
(* view exists; the listeners of the document stay reachable for as long   *)
(* as they are registered.                                                 *)
(***************************************************************************)
ThumbMouseDown(clientY, zero) ==
  /\ phase = "mounted"
  /\ ThumbShown
  /\ pointer = "none"
  /\ Drags < MaxDrags
  /\ listeners["mousedown"] # {}
  /\ Commit(onThumbMouseDown(Cur, clientY, zero))
  /\ pointer' = "mouse"
  /\ UNCHANGED routing
  /\ UNCHANGED <<phase, observer, initTimer, mutationTimers, resizeTimers, interval, changes>>

DocumentMouseMove(clientY) ==
  /\ pointer # "touch"
  /\ listeners["mousemove"] # {}
  /\ Commit(RunMouseMove(Cardinality(listeners["mousemove"]), Cur, clientY))
  /\ UNCHANGED routing
  /\ UNCHANGED <<phase, observer, initTimer, mutationTimers, resizeTimers, interval,
                 pointer, changes>>

DocumentMouseUp ==
  /\ pointer # "touch"
  /\ listeners["mouseup"] # {}
  /\ Commit(RunMouseUp(Cardinality(listeners["mouseup"]), Cur))
  /\ pointer' = "none"
  /\ UNCHANGED routing
  /\ UNCHANGED <<phase, observer, initTimer, mutationTimers, resizeTimers, interval, changes>>

ThumbTouchStart(clientY, zero) ==
  /\ phase = "mounted"
  /\ ThumbShown
  /\ pointer = "none"
  /\ Drags < MaxDrags
  /\ listeners["touchstart"] # {}
  /\ Commit(onThumbTouchStart(Cur, clientY, zero))
  /\ pointer' = "touch"
  /\ UNCHANGED routing
  /\ UNCHANGED <<phase, observer, initTimer, mutationTimers, resizeTimers, interval, changes>>

DocumentTouchMove(clientY) ==
  /\ pointer = "touch"
  /\ listeners["touchmove"] # {}
  /\ Commit(RunTouchMove(Cardinality(listeners["touchmove"]), Cur, clientY))
  /\ UNCHANGED routing
  /\ UNCHANGED <<phase, observer, initTimer, mutationTimers, resizeTimers, interval,
                 pointer, changes>>

DocumentTouchEnd ==
  /\ pointer = "touch"
  /\ listeners["touchend"] # {}
  /\ Commit(RunTouchEnd(Cardinality(listeners["touchend"]), Cur))
  /\ pointer' = "none"
  /\ UNCHANGED routing
  /\ UNCHANGED <<phase, observer, initTimer, mutationTimers, resizeTimers, interval, changes>>

\* the touch is cancelled by the platform: touchcancel has no listener
DocumentTouchCancel ==
  /\ pointer = "touch"
  /\ pointer' = "none"
  /\ UNCHANGED routing
  /\ UNCHANGED <<domVars, phase, observer, initTimer, mutationTimers, resizeTimers,
                 interval, changes>>

\* The instance alone on a page whose route does not change: content,
\* layout, scrolling, track clicks, mouse and touch drags, teardown.
Next ==
  \/ NgOnInit
  \/ NgAfterViewInit
  \/ NgOnDestroy
  \/ \E sh \in ScrollHeights : ContentMutation(sh)
  \/ \E sh \in ScrollHeights : LayoutShift(sh)
  \/ \E ch \in ClientHeights : WindowResize(ch)
  \/ InitTimeout
  \/ MutationTimeout
  \/ ResizeTimeout
  \/ IntervalTick
  \/ \E st \in ScrollTops : UserScroll(st)
  \/ SmoothScroll
  \/ ScrollEvent
  \/ \E target \in ClickTargets, y \in ClientYs : TrackClick(target, y)
  \/ \E y \in ClientYs, zero \in ZeroTexts : ThumbMouseDown(y, zero)
  \/ \E y \in ClientYs : DocumentMouseMove(y)
  \/ DocumentMouseUp
  \/ \E y \in ClientYs, zero \in ZeroTexts : ThumbTouchStart(y, zero)
  \/ \E y \in ClientYs : DocumentTouchMove(y)
  \/ DocumentTouchEnd
  \/ DocumentTouchCancel

Spec == Init /\ [][Next]_vars

\* The component driven by content, layout and scrolling only: every path
\* into updateThumbSize (the three timeouts and the interval, before and
\* after teardown), with no pointer input.
NextSize ==
  \/ NgOnInit
  \/ NgAfterViewInit
  \/ NgOnDestroy
  \/ \E sh \in ScrollHeights : ContentMutation(sh)
  \/ \E sh \in ScrollHeights : LayoutShift(sh)
  \/ \E ch \in ClientHeights : WindowResize(ch)
  \/ InitTimeout
  \/ MutationTimeout
  \/ ResizeTimeout
  \/ IntervalTick
  \/ \E st \in ScrollTops : UserScroll(st)
  \/ ScrollEvent

SpecSize == Init /\ [][NextSize]_vars

\* a pending timeout of one kind fires; in NextSize these are the steps
\* InitTimeout, MutationTimeout and ResizeTimeout and no others
InitTimerFires == initTimer /\ initTimer' = FALSE
MutationTimerFires == mutationTimers > 0 /\ mutationTimers' = mutationTimers - 1
ResizeTimerFires == resizeTimers > 0 /\ resizeTimers' = resizeTimers - 1

\* the same, with the event loop running every timeout that is due
SpecSizeFair ==
  /\ Init
  /\ [][NextSize]_vars
  /\ WF_initTimer(InitTimerFires)
  /\ WF_mutationTimers(MutationTimerFires)
  /\ WF_resizeTimers(ResizeTimerFires)

\* The mounted component driven by content mutations, scrolling and mouse
\* drags of the thumb.
NextMouseDrag ==
  \/ NgOnInit
  \/ NgAfterViewInit
  \/ \E sh \in ScrollHeights : ContentMutation(sh)
  \/ InitTimeout
  \/ MutationTimeout
  \/ IntervalTick
  \/ \E st \in ScrollTops : UserScroll(st)
  \/ ScrollEvent
  \/ \E y \in ClientYs, zero \in ZeroTexts : ThumbMouseDown(y, zero)
  \/ \E y \in ClientYs : DocumentMouseMove(y)
  \/ DocumentMouseUp

SpecMouseDrag == Init /\ [][NextMouseDrag]_vars

\* The mounted component under scrolling and drags of the thumb by mouse
\* and by touch.
NextPointer ==
  \/ NgOnInit
  \/ NgAfterViewInit
  \/ InitTimeout
  \/ IntervalTick
  \/ \E st \in ScrollTops : UserScroll(st)
  \/ ScrollEvent
  \/ \E y \in ClientYs, zero \in ZeroTexts : ThumbMouseDown(y, zero)
  \/ \E y \in ClientYs : DocumentMouseMove(y)
  \/ DocumentMouseUp
  \/ \E y \in ClientYs, zero \in ZeroTexts : ThumbTouchStart(y, zero)
  \/ \E y \in ClientYs : DocumentTouchMove(y)
  \/ DocumentTouchEnd
  \/ DocumentTouchCancel

SpecPointer == Init /\ [][NextPointer]_vars

\* The instance and the router: navigation at any moment of the lifecycle,
\* of scrolling and of a mouse drag of the thumb.
NextNavigation ==
  \/ NgOnInit
  \/ NgAfterViewInit
  \/ NgOnDestroy
  \/ \E url \in Urls : NavigationEnd(url)
  \/ InitTimeout
  \/ IntervalTick
  \/ \E st \in ScrollTops : UserScroll(st)
  \/ ScrollEvent
  \/ \E y \in ClientYs, zero \in ZeroTexts : ThumbMouseDown(y, zero)
  \/ \E y \in ClientYs : DocumentMouseMove(y)
  \/ DocumentMouseUp

SpecNavigation == InitNavigation /\ [][NextNavigation]_vars

\* Two instances and the router: navigation and both lifecycles.
NextTheme ==
  \/ NgOnInit
  \/ NgAfterViewInit
  \/ NgOnDestroy
  \/ \E url \in Urls : NavigationEnd(url)
  \/ PeerNgOnInit
  \/ PeerNgAfterViewInit
  \/ PeerNgOnDestroy
  \/ InitTimeout

SpecTheme == InitTheme /\ [][NextTheme]_vars

(***************************************************************************)
(* Steps and state predicates the properties are stated with.              *)
(***************************************************************************)
\* a step that runs updateThumbSize
SizeStep == InitTimeout \/ MutationTimeout \/ ResizeTimeout \/ IntervalTick

\* a step of the drag move handler
DragMoveStep == \E y \in ClientYs : DocumentMouseMove(y) \/ DocumentTouchMove(y)

\* listeners registered on the document
DocumentListeners ==
  listeners["mousemove"] \cup listeners["mouseup"]
    \cup listeners["touchmove"] \cup listeners["touchend"]

\* the thumb is shown with a height and a position that were computed
ThumbComputed ==
  thumbDisplay = "block" /\ trackDisplay = "block"
    /\ thumbHeight # Unset /\ thumbTransform # Unset

\* clientHeight - thumbEl.offsetHeight in the current state
ThumbMaxY == clientHeight - OffsetHeight(Cur)

(***************************************************************************)
(* C1.  After ngOnDestroy no callback of the widget changes the thumb's    *)
(* height, display or transform, the track's display, the viewport's       *)
(* scrollTop or the drag state.                                            *)
(***************************************************************************)
C1_NoMutationAfterTeardown ==
  [][phase = "destroyed" =>
       UNCHANGED <<thumbHeight, thumbDisplay, thumbTransform, trackDisplay,
                   scrollTop, isDragging>>]_vars

(***************************************************************************)
(* C2.  While isDragging is true, only the drag move handler changes the   *)
(* thumb's position.                                                       *)
(***************************************************************************)
C2_DragIsOnlyPositionWriter ==
  [][(isDragging /\ thumbTransform' # thumbTransform) => DragMoveStep]_vars

(***************************************************************************)
(* C3.  A scroll event received while dragging leaves the thumb position   *)
(* unchanged; a scroll event received while idle sets it to the position   *)
(* derived from the current scroll metrics.                                *)
(***************************************************************************)
C3_ScrollEventEffect ==
  [][ScrollEvent =>
       IF isDragging
       THEN thumbTransform' = thumbTransform
       ELSE thumbTransform' =
              ComputeThumbY(scrollTop, scrollHeight, clientHeight, OffsetHeight(Cur))]_vars

(***************************************************************************)
(* C4.  In every idle state no move/up listener of the widget is           *)
(* registered on the document.                                             *)
(***************************************************************************)
C4_NoListenerLeak == ~isDragging => DocumentListeners = {}

(***************************************************************************)
(* C5.  Once the pointer interaction has ended, by pointer-up or by        *)
(* cancellation, the widget is not dragging.                               *)
(***************************************************************************)
C5_DragEndsOnCancel == pointer = "none" => ~isDragging

(***************************************************************************)
(* C6.  A size recompute leaves thumb and track both hidden when           *)
(* scrollHeight <= clientHeight + 5 and both shown otherwise, whatever     *)
(* the scroll position and the visibility before it.                       *)
(***************************************************************************)
C6_HideShow ==
  [][SizeStep =>
       IF scrollHeight' <= clientHeight' + 5
       THEN thumbDisplay' = "none" /\ trackDisplay' = "none"
       ELSE thumbDisplay' = "block" /\ trackDisplay' = "block"]_vars

\* hidden by a recompute after having been shown, at a scroll position
\* other than the top
C6_Witness ==
  /\ scrollHeight <= clientHeight + 5
  /\ scrollTop # Num(0)
  /\ thumbDisplay = "none" /\ trackDisplay = "none"
  /\ thumbHeight # Unset

(***************************************************************************)
(* C7.  As claimed: after a size recompute with scrollHeight >             *)
(* clientHeight + 5 the thumb height h satisfies 50 <= h <= clientHeight   *)
(* - 20, small viewports included.                                         *)
(***************************************************************************)
C7_HeightBounds ==
  [][(SizeStep /\ scrollHeight' > clientHeight' + 5) =>
       /\ Leq(Num(50), thumbHeight')
       /\ Leq(thumbHeight', Num(clientHeight' - 20))]_vars

(***************************************************************************)
(* C7, amended.  After a size recompute with scrollHeight > clientHeight   *)
(* + 5 the thumb height h satisfies 50 <= h, and h <= clientHeight - 20    *)
(* whenever clientHeight - 20 >= 50; in a smaller viewport h is 50.        *)
(***************************************************************************)
C7_HeightBoundsAmended ==
  [][(SizeStep /\ scrollHeight' > clientHeight' + 5) =>
       /\ Leq(Num(50), thumbHeight')
       /\ IF clientHeight' - 20 >= 50
          THEN Leq(thumbHeight', Num(clientHeight' - 20))
          ELSE thumbHeight' = Num(50)]_vars

\* a computed height strictly between the two bounds
C7_Witness ==
  /\ scrollHeight > clientHeight + 5
  /\ thumbDisplay = "block"
  /\ thumbHeight = ComputeThumbHeight(scrollHeight, clientHeight)
  /\ Lt(Num(50), thumbHeight)
  /\ Lt(thumbHeight, Num(clientHeight - 20))

(***************************************************************************)
(* C8.  Round trip.  The thumb's position is in step with scrollTop when   *)
(* it is the position formula's value for the current metrics; the move    *)
(* handler of a drag that starts at that offset, with the pointer where    *)
(* it went down, then maps the offset back with the drag formula.          *)
(***************************************************************************)
InStep ==
  /\ ThumbComputed
  /\ thumbTransform =
       ComputeThumbY(scrollTop, scrollHeight, clientHeight, OffsetHeight(Cur))

\* a drag that starts at the thumb's offset with the pointer at y
DragFrom(y) ==
  [Cur EXCEPT !.isDragging = TRUE, !.dragStartY = y, !.thumbStartY = thumbTransform]

MouseRoundTrip(y) == onDocumentMouseMove(DragFrom(y), y).scrollTop
TouchRoundTrip(y) == onDocumentTouchMove(DragFrom(y), y).scrollTop

\* C8 as claimed: for any metrics with a visible thumb the round trip
\* yields the original scrollTop
C8_RoundTrip ==
  InStep => \A y \in ClientYs :
              MouseRoundTrip(y) = scrollTop /\ TouchRoundTrip(y) = scrollTop

\* C8, amended: for any metrics with a visible thumb shorter than the
\* viewport (thumbMaxY > 0) the round trip yields the original scrollTop
C8_RoundTripAmended ==
  (InStep /\ ThumbMaxY > 0) =>
     \A y \in ClientYs :
       MouseRoundTrip(y) = scrollTop /\ TouchRoundTrip(y) = scrollTop

\* in step at a scroll position strictly inside the range, with a thumb
\* height that is not a whole number of pixels
C8_Witness ==
  /\ InStep
  /\ ThumbMaxY > 0
  /\ Lt(Num(0), scrollTop) /\ Lt(scrollTop, Num(scrollHeight - clientHeight))
  /\ thumbHeight[2] # 1

(***************************************************************************)
(* C9.  For any pointer movement during a drag the offset the move         *)
(* handler writes lies in [0, thumbMaxY] and the scrollTop it writes lies  *)
(* in [0, scrollHeight - clientHeight].                                    *)
(***************************************************************************)
WrittenThumbY(y) == ClampThumbY(Add(thumbStartY, Num(y - dragStartY)), ThumbMaxY)
WrittenScrollTop(y) ==
  ThumbYToScrollTop(WrittenThumbY(y), ThumbMaxY, scrollHeight, clientHeight)

C9_DragClamps ==
  isDragging =>
    \A y \in ClientYs :
      /\ Leq(Num(0), WrittenThumbY(y)) /\ Leq(WrittenThumbY(y), Num(ThumbMaxY))
      /\ IsNum(WrittenScrollTop(y))
      /\ Leq(Num(0), WrittenScrollTop(y))
      /\ Leq(WrittenScrollTop(y), Num(scrollHeight - clientHeight))

(***************************************************************************)
(* C10.  Whenever the thumb is visible and its geometry has been computed  *)
(* it is inside the track: 0 <= offsetY <= clientHeight - height.          *)
(***************************************************************************)
C10_ThumbInsideTrack ==
  ThumbComputed =>
    /\ Leq(Num(0), thumbTransform)
    /\ Leq(Add(thumbTransform, thumbHeight), Num(clientHeight))

(***************************************************************************)
(* C11.  Idempotence: with the scroll metrics as they are, running the     *)
(* recompute (updateThumbSize, then updateThumbPosition) twice yields the  *)
(* same thumb and track visibility, thumb height and thumb offset as       *)
(* running it once.                                                        *)
(***************************************************************************)
Geometry(s) == <<s.thumbDisplay, s.trackDisplay, s.thumbHeight, s.thumbTransform>>

C11_Idempotent == Geometry(Recompute(Recompute(Cur))) = Geometry(Recompute(Cur))

\* a shown thumb, scrolled away from the top, whose geometry is a
\* recompute's result: every timeout has fired after the size change
C11_Witness ==
  /\ changes > 0 /\ ~initTimer /\ mutationTimers = 0 /\ resizeTimers = 0
  /\ ThumbComputed
  /\ Lt(Num(0), thumbTransform)
  /\ Geometry(Cur) = Geometry(Recompute(Cur))

(***************************************************************************)
(* C12.  No reachable combination of metrics makes a position recompute,   *)
(* a drag move or a track click compute an undefined (non-finite) thumb    *)
(* offset or scrollTop; with scrollHeight - clientHeight = 0 the position  *)
(* computed is 0.                                                          *)
(***************************************************************************)
C12_NoUndefinedValue ==
  phase = "mounted" =>
    /\ IsNum(ComputeThumbY(scrollTop, scrollHeight, clientHeight, OffsetHeight(Cur)))
    /\ scrollHeight = clientHeight =>
         ComputeThumbY(scrollTop, scrollHeight, clientHeight, OffsetHeight(Cur)) = Num(0)
    /\ isDragging => \A y \in ClientYs : IsNum(WrittenScrollTop(y))
    /\ trackDisplay # "none" => \A y \in ClientYs : IsNum(TrackClickScrollTop(Cur, y))

(***************************************************************************)
(* C13.  A pointer-down on the thumb, by mouse or by touch, sets           *)
(* thumbStartY to the thumb's current offset when a position has been      *)
(* written, and to 0 when none has; thumbStartY is always a number.        *)
(***************************************************************************)
PointerDownStep ==
  \E y \in ClientYs, zero \in ZeroTexts : ThumbMouseDown(y, zero) \/ ThumbTouchStart(y, zero)

C13_ThumbStartY ==
  [][PointerDownStep =>
       /\ IsNum(thumbStartY')
       /\ thumbStartY' = IF thumbTransform = Unset THEN Num(0) ELSE thumbTransform]_vars

(***************************************************************************)
(* C14.  A NavigationEnd notification re-resolves the scheme of a          *)
(* subscribed instance and leaves the geometry untouched: the thumb's      *)
(* height, offset and visibility, the track's visibility, the viewport's   *)
(* scrollTop and the drag state are unchanged by it, while idle and while  *)
(* dragging.                                                               *)
(***************************************************************************)
NavigationStep == \E url \in Urls : NavigationEnd(url)

C14_ThemeChangeLeavesGeometry ==
  [][NavigationStep =>
       /\ UNCHANGED <<thumbHeight, thumbTransform, thumbDisplay, trackDisplay,
                      scrollTop, isDragging, dragStartY, thumbStartY>>
       /\ phase \in {"initialised", "mounted"} =>
            currentThemeColor' = IF Includes(routerUrl', MachineKey) THEN "blue" ELSE "green"]_vars

\* dragging a thumb of computed geometry, away from the top, with the blue
\* scheme applied
C14_Witness ==
  /\ phase = "mounted" /\ isDragging /\ ThumbComputed
  /\ Lt(Num(0), scrollTop)
  /\ thumbColorOverride = ""
  /\ thumbBackground = "#0076CC"

(***************************************************************************)
(* C15.  While an instance is mounted its thumb and track colours are the  *)
(* configured override when one is set, otherwise the colour of the        *)
(* scheme of the most recent URL: blue when the URL contains '/machine',   *)
(* green otherwise.                                                        *)
(***************************************************************************)
ResolvedScheme ==
  colorSchemes[IF Includes(routerUrl, MachineKey) THEN "blue" ELSE "green"]

C15_AppliedColors ==
  /\ phase = "mounted" =>
       /\ thumbBackground =
            IF thumbColorOverride # "" THEN thumbColorOverride ELSE ResolvedScheme.thumb
       /\ trackBackground =
            IF trackColorOverride # "" THEN trackColorOverride ELSE ResolvedScheme.track
  /\ peer.phase = "mounted" =>
       /\ peer.thumbBackground =
            IF peer.thumbColorOverride # "" THEN peer.thumbColorOverride
            ELSE ResolvedScheme.thumb
       /\ peer.trackBackground =
            IF peer.trackColorOverride # "" THEN peer.trackColorOverride
            ELSE ResolvedScheme.track

\* mounted beside a mounted second instance, on a URL that contains
\* '/machine' inside a longer segment, with a track override only
C15_Witness ==
  /\ phase = "mounted" /\ peer.phase = "mounted"
  /\ routerUrl = UrlNested
  /\ thumbColorOverride = "" /\ trackColorOverride # ""
  /\ thumbBackground = "#0076CC"
  /\ trackBackground = trackColorOverride
  /\ peer.thumbBackground # thumbBackground

(***************************************************************************)
(* C20.  The hover and active colours in effect for a mounted instance     *)
(* are those of its own overrides and of the resolved scheme, whatever     *)
(* another instance has applied.                                           *)
(***************************************************************************)
OwnRootStyle(thumbOverride, trackOverride) ==
  [thumbHover  |-> IF thumbOverride # "" THEN thumbOverride ELSE ResolvedScheme.thumbHover,
   thumbActive |-> IF thumbOverride # "" THEN thumbOverride ELSE ResolvedScheme.thumbActive,
   trackHover  |-> IF trackOverride # "" THEN trackOverride ELSE ResolvedScheme.trackHover]

C20_ColorsScoped ==
  /\ phase = "mounted" => rootStyle = OwnRootStyle(thumbColorOverride, trackColorOverride)
  /\ peer.phase = "mounted" =>
       rootStyle = OwnRootStyle(peer.thumbColorOverride, peer.trackColorOverride)

(***************************************************************************)
(* C16.  A click in the track whose target is the thumb changes nothing.   *)
(* Any other click in the track requests a smooth scroll to                *)
(* clamp(clickY - thumbHeight/2, 0, thumbMaxY) / thumbMaxY *               *)
(* (scrollHeight - clientHeight), a number in [0, scrollHeight -           *)
(* clientHeight], and writes neither the thumb position nor the drag       *)
(* state.                                                                  *)
(***************************************************************************)
SeekTarget(clickY) ==
  LET h == OffsetHeight(Cur)
      m == clientHeight - h
      c == MathMax(Num(0), MathMin(Add(Num(clickY), Rat(-h, 2)), Num(m)))
  IN  Mul(Div(c, Num(m)), Num(scrollHeight - clientHeight))

C16_ClickToSeek ==
  [][\A y \in ClientYs :
       /\ TrackClick("thumb", y) => UNCHANGED vars
       /\ TrackClick("track", y) =>
            /\ IsNum(SeekTarget(y))
            /\ Leq(Num(0), SeekTarget(y))
            /\ Leq(SeekTarget(y), Num(scrollHeight - clientHeight))
            /\ smoothTarget' = SeekTarget(y)
            /\ UNCHANGED <<thumbTransform, isDragging, dragStartY, thumbStartY,
                           scrollTop>>]_vars

(***************************************************************************)
(* C17.  From any state in which the thumb can be pressed, a down, a move  *)
(* and an up delivered as mouse events and the same three delivered as     *)
(* touch events, with the same Y coordinates, produce the same drag state, *)
(* thumb offset and scrollTop after each event.                            *)
(***************************************************************************)
\* what a drag event leaves behind, apart from the listener registry
DragOutcome(s) ==
  <<s.isDragging, s.dragStartY, s.thumbStartY, s.thumbTransform, s.scrollTop,
    s.scrollEvt, s.thumbOpacity>>

\* the document's listeners of one type run for one event
MouseMoved(s, y) == RunMouseMove(Cardinality(s.listeners["mousemove"]), s, y)
MouseReleased(s) == RunMouseUp(Cardinality(s.listeners["mouseup"]), s)
TouchMoved(s, y) == RunTouchMove(Cardinality(s.listeners["touchmove"]), s, y)
TouchReleased(s) == RunTouchEnd(Cardinality(s.listeners["touchend"]), s)

CanPress == phase = "mounted" /\ ThumbShown /\ pointer = "none"

C17_TouchAsMouse ==
  CanPress =>
    \A y0 \in ClientYs, y1 \in ClientYs, zero \in ZeroTexts :
      LET m1 == onThumbMouseDown(Cur, y0, zero)
          t1 == onThumbTouchStart(Cur, y0, zero)
          m2 == MouseMoved(m1, y1)
          t2 == TouchMoved(t1, y1)
          m3 == MouseReleased(m2)
          t3 == TouchReleased(t2)
      IN  /\ DragOutcome(m1) = DragOutcome(t1)
          /\ DragOutcome(m2) = DragOutcome(t2)
          /\ DragOutcome(m3) = DragOutcome(t3)

\* a thumb that can be pressed, away from the top, which a drag moves and
\* which scrolls the viewport
C17_Witness ==
  /\ CanPress /\ ThumbComputed /\ ThumbMaxY > 0
  /\ Lt(Num(0), scrollTop)
  /\ \E y0 \in ClientYs, y1 \in ClientYs :
       LET t2 == TouchMoved(onThumbTouchStart(Cur, y0, "0"), y1)
       IN  t2.scrollTop # scrollTop /\ t2.thumbTransform # thumbTransform

(***************************************************************************)
(* C18.  A structural mutation seen by the observer starts a 50 ms         *)
(* timeout and a window resize a 100 ms timeout; every such timeout        *)
(* eventually fires, and when it fires it hides or shows thumb and track   *)
(* by the metrics as they then are and, when it shows them, writes the     *)
(* thumb height and the thumb offset of those metrics.  A change of the    *)
(* content's height that comes with no child-list mutation starts no       *)
(* timeout.                                                                *)
(***************************************************************************)
\* the geometry in the next state is the one computed from the metrics
Recomputed ==
  IF scrollHeight' <= clientHeight' + 5
  THEN thumbDisplay' = "none" /\ trackDisplay' = "none"
  ELSE /\ thumbDisplay' = "block" /\ trackDisplay' = "block"
       /\ thumbHeight' = ComputeThumbHeight(scrollHeight', clientHeight')
       /\ thumbTransform' =
            ComputeThumbY(scrollTop', scrollHeight', clientHeight',
                          Round(MathMax(thumbHeight', Num(cssMinHeight))))

C18_ChangeRecomputed ==
  /\ [][(\E sh \in ScrollHeights : ContentMutation(sh)) =>
          (observer => mutationTimers' = mutationTimers + 1)]_vars
  /\ [][(\E ch \in ClientHeights : WindowResize(ch)) =>
          resizeTimers' = resizeTimers + 1]_vars
  /\ [][(\E sh \in ScrollHeights : LayoutShift(sh)) =>
          UNCHANGED <<mutationTimers, resizeTimers>>]_vars
  /\ [][(MutationTimeout \/ ResizeTimeout) =>
          (UNCHANGED <<scrollHeight, clientHeight, scrollTop>> /\ Recomputed)]_vars
  /\ \A n \in 1..(MaxPending + 1) :
       /\ (mutationTimers = n) ~> (mutationTimers < n)
       /\ (resizeTimers = n) ~> (resizeTimers < n)

\* the content grew by a mutation while the 200 ms timeout was still
\* pending and nothing was scrolled; the 50 ms timeout has shown the thumb
C18_Witness ==
  /\ phase = "mounted" /\ initTimer /\ changes > 0
  /\ mutationTimers = 0 /\ resizeTimers = 0
  /\ scrollTop = Num(0) /\ ~scrollEvt
  /\ thumbDisplay = "block" /\ trackDisplay = "block"
  /\ thumbHeight = ComputeThumbHeight(scrollHeight, clientHeight)
  /\ thumbTransform = Num(0)

(***************************************************************************)
(* C19.  When the 1 s interval fires in the idle state over scrollable     *)
(* content, the thumb height and the thumb offset it leaves are the ones   *)
(* computed from the current metrics: offset = scrollTop / (scrollHeight   *)
(* - clientHeight) * (clientHeight - height), with no scroll event and no  *)
(* timeout pending that would still correct them.  A thumb with no         *)
(* transform is at offset 0.                                               *)
(***************************************************************************)
C19_RecheckRederives ==
  [][(IntervalTick /\ phase = "mounted" /\ ~isDragging /\ ~scrollEvt
        /\ mutationTimers = 0 /\ resizeTimers = 0
        /\ scrollHeight > clientHeight + 5) =>
       /\ thumbHeight' = ComputeThumbHeight(scrollHeight, clientHeight)
       /\ (IF thumbTransform' = Unset THEN Num(0) ELSE thumbTransform') =
            ComputeThumbY(scrollTop, scrollHeight, clientHeight,
                          Round(MathMax(thumbHeight', Num(cssMinHeight))))]_vars

=============================================================================
